---- MODULE Spec2Model ----
(***************************************************************************)
(* A model of degenproto_engine: the Router Assembler (router_jsx.rs) and  *)
(* the View Compiler (view_jsx.rs) over the definition model of lib.rs and *)
(* view_proto.rs.                                                          *)
(*                                                                         *)
(* Identifier strings of the router are sequences of one-character        *)
(* strings, so that capitalize and the "{}{}" formatting of a probe        *)
(* candidate are computed and not assumed.  Generated text is kept as a    *)
(* sequence of line records, one record per formatted line.                *)
(***************************************************************************)
EXTENDS Integers, Sequences, FiniteSets, TLC

VARIABLES
    pc,               \* position in to_string ("done" once the text is returned)
    \* ---- RouterJsx ----
    layouts,          \* RouterJsx.layouts
    routes,           \* RouterJsx.routes
    path_to_name,     \* ImportMap.path_to_name
    used_names,       \* ImportMap.used_names
    idx,              \* index of the current loop iteration
    base,             \* unique_name: the base argument
    counter,          \* unique_name: the probe counter
    imports,          \* the `imports` string, as line records
    seen_paths,       \* the seen_paths set of the view-import loop
    layout_routes,    \* layout name -> routes, in insertion order
    no_layout_routes, \* routes without a layout, in insertion order
    route_elements,   \* the entries of the routes array
    \* ---- ViewJsx ----
    proto,            \* ViewJsx.proto
    component_defs,   \* ViewJsx.component_defs.components
    asset_defs,       \* ViewJsx.asset_defs.assets
    content_defs,     \* ViewJsx.content_defs.content
    used_assets,      \* names of used_assets not yet iterated
    used_components,  \* names of used_components not yet iterated
    output,           \* the `output` string, as line records
    stack             \* pending calls of render_element and pending closing tags

routerVars == <<layouts, routes, path_to_name, used_names, idx, base, counter,
                imports, seen_paths, layout_routes, no_layout_routes, route_elements>>

viewVars == <<proto, component_defs, asset_defs, content_defs, used_assets,
              used_components, output, stack>>

vars == <<pc, routerVars, viewVars>>

-----------------------------------------------------------------------------
(* Option<T> *)
None == [some |-> FALSE]
Some(v) == [some |-> TRUE, v |-> v]

(* Bounds of the explored inputs *)
MaxLayouts == 2
MaxRoutes == 2
MaxItems == 2

SeqsUpTo(S, n) == UNION {[1..k -> S] : k \in 0..n}

-----------------------------------------------------------------------------
(* Strings as character sequences *)

Digit(d) == CASE d = 0 -> "0" [] d = 1 -> "1" [] d = 2 -> "2" [] d = 3 -> "3"
              [] d = 4 -> "4" [] d = 5 -> "5" [] d = 6 -> "6" [] d = 7 -> "7"
              [] d = 8 -> "8" [] d = 9 -> "9"

\* Display of a non-negative integer, as format!("{}", n) prints it
RECURSIVE Decimal(_)
Decimal(n) == IF n < 10 THEN <<Digit(n)>> ELSE Decimal(n \div 10) \o <<Digit(n % 10)>>

\* char::to_uppercase on the characters the inputs use
ToUpper(c) == CASE c = "a" -> <<"A">>
                [] c = "h" -> <<"H">>
                [] c = "m" -> <<"M">>
                [] OTHER -> <<c>>

capitalize(s) == IF s = <<>> THEN <<>> ELSE ToUpper(Head(s)) \o Tail(s)

LayoutSuffix == <<"L", "a", "y", "o", "u", "t">>

Layout(name, path) == [name |-> name, path |-> path]
\* Route.proto is never read by RouterJsx and is left out
Route(name, url, path, layout) == [name |-> name, url |-> url, path |-> path, layout |-> layout]

-----------------------------------------------------------------------------
(* The route tables explored *)

LayoutNames == {<<"a">>, <<"A">>}
LayoutPaths == {"layouts/Main", "views/Home"}
RouteNames == {<<"a">>, <<"a">> \o LayoutSuffix, <<"a">> \o LayoutSuffix \o <<"2">>}
RoutePaths == {"views/Home", "views/About"}
RouteLayouts == {None, Some(<<"a">>)}

LayoutPool == {Layout(n, p) : n \in LayoutNames, p \in LayoutPaths}
                 \ {Layout(<<"A">>, "layouts/Main")}
\* url is left out of the pool: the route at position k gets the url "/k"
RoutePool ==
    {[name |-> <<"a">>, path |-> p, layout |-> l] : p \in RoutePaths, l \in RouteLayouts}
    \cup {[name |-> n, path |-> p, layout |-> Some(<<"a">>)] :
             n \in RouteNames, p \in RoutePaths}

UrlOf(k) == <<"/">> \o Decimal(k)

-----------------------------------------------------------------------------
(* Lines of the generated router file *)

UseRoutesLine == [kind |-> "useRoutes"]
BlankLine == [kind |-> "blank"]
ImportLine(name, path) == [kind |-> "import", name |-> name, path |-> path]

ChildEntry(url, component) == [path |-> url, element |-> component]
LayoutEntry(component, children) ==
    [kind |-> "layout", path |-> <<"/">>, element |-> component, children |-> children]
TopEntry(url, component) == [kind |-> "route", path |-> url, element |-> component]

-----------------------------------------------------------------------------
(* The definition model of view_proto.rs *)

\* PropValue
Str(s) == [tag |-> "Str", val |-> s]
Num(n) == [tag |-> "Num", val |-> n]
Bool(b) == [tag |-> "Bool", val |-> b]
Var(name) == [tag |-> "Var", val |-> name]
Asset(name) == [tag |-> "Asset", val |-> name]
Content(name) == [tag |-> "Content", val |-> name]
ContentField(name) == [tag |-> "ContentField", val |-> name]

\* Element
Text(text) == [el |-> "Text", text |-> text]
Node(tag, class_name, props, children) ==
    [el |-> "Node", tag |-> tag, class_name |-> class_name, props |-> props,
     children |-> children]
ComponentRef(component, props, children) ==
    [el |-> "ComponentRef", component |-> component, props |-> props,
     children |-> children]
ContentList(source, template) ==
    [el |-> "ContentList", source |-> source, template |-> template]

\* ComponentDef (required_props and children_template are never read by ViewJsx)
ComponentDef(name, tag, class_name, default_props, import_path) ==
    [name |-> name, tag |-> tag, class_name |-> class_name,
     default_props |-> default_props, import_path |-> import_path]

AssetDef(name, kind, path, url) == [name |-> name, kind |-> kind, path |-> path, url |-> url]

Import(name, path) == [name |-> name, path |-> path]

ViewProto(name, imps, observer, tree) ==
    [name |-> name, imports |-> imps, observer |-> observer, tree |-> tree]

\* ContentValue
CStr(s) == [cv |-> "Str", s |-> s]
CRecord(r) == [cv |-> "Record", record |-> r]
CList(l) == [cv |-> "List", list |-> l]

Min(S) == CHOOSE m \in S : \A n \in S : m <= n

\* ComponentDefs::get: the first definition of that name
ComponentDefs_get(name) ==
    LET hits == {k \in 1..Len(component_defs) : component_defs[k].name = name}
    IN  IF hits = {} THEN None ELSE Some(component_defs[Min(hits)])

\* AssetDefs::get: the first definition of that name
AssetDefs_get(name) ==
    LET hits == {k \in 1..Len(asset_defs) : asset_defs[k].name = name}
    IN  IF hits = {} THEN None ELSE Some(asset_defs[Min(hits)])

\* ContentDefs::get_str
get_str(name) ==
    IF name \in DOMAIN content_defs /\ content_defs[name].cv = "Str"
    THEN Some(content_defs[name].s) ELSE None

\* ContentDefs::get_list
get_list(name) ==
    IF name \in DOMAIN content_defs /\ content_defs[name].cv = "List"
    THEN Some(content_defs[name].list) ELSE None

\* str::starts_with
starts_with(s, prefix) ==
    Len(s) >= Len(prefix) /\ SubSeq(s, 1, Len(prefix)) = prefix

-----------------------------------------------------------------------------
(* Lines of the generated page file.  Every import line has the one format *)
(* "import {} from '{}';"; `by` records the loop that pushed it.           *)

ViewImportLine(by, name, path) == [kind |-> "import", by |-> by, name |-> name, path |-> path]
ReactLine == [kind |-> "import_react"]
ObserverLine == [kind |-> "import_observer"]
FunctionOpen(name) == [kind |-> "function", name |-> name]
ReturnOpen == [kind |-> "return"]
ReturnClose == [kind |-> "return_end"]
FunctionClose == [kind |-> "function_end"]
ExportLine(name, observer) == [kind |-> "export", name |-> name, observer |-> observer]

TextLine(indent, text) == [kind |-> "text", indent |-> indent, text |-> text]
OpenLine(indent, tag, attrs, self_closing) ==
    [kind |-> "open", indent |-> indent, tag |-> tag, attrs |-> attrs,
     self_closing |-> self_closing]
CloseLine(indent, tag) == [kind |-> "close", indent |-> indent, tag |-> tag]

\* key="value", key={value}, key
Quoted(key, value) == [key |-> key, form |-> "quoted", value |-> value]
Braced(key, value) == [key |-> key, form |-> "braced", value |-> value]
Bare(key) == [key |-> key, form |-> "bare", value |-> ""]

\* Pending work of the recursion: a call of render_element, or the closing
\* tag render_node pushes after the children
CallFrame(element, indent, record_ctx) ==
    [op |-> "render_element", element |-> element, indent |-> indent,
     record_ctx |-> record_ctx]
CloseFrame(tag, indent) == [op |-> "close", tag |-> tag, indent |-> indent]

-----------------------------------------------------------------------------
(* ViewJsx *)

AssetValues(props) == {props[k].val : k \in {j \in DOMAIN props : props[j].tag = "Asset"}}

RECURSIVE collect_refs_recursive(_)
collect_refs_recursive(element) ==
    CASE element.el = "Text" -> [assets |-> {}, components |-> {}]
      [] element.el = "Node" ->
            LET sub == [i \in 1..Len(element.children) |->
                           collect_refs_recursive(element.children[i])]
            IN  [assets |-> AssetValues(element.props)
                              \cup UNION {sub[i].assets : i \in DOMAIN sub},
                 components |-> UNION {sub[i].components : i \in DOMAIN sub}]
      [] element.el = "ComponentRef" ->
            LET sub == [i \in 1..Len(element.children) |->
                           collect_refs_recursive(element.children[i])]
            IN  [assets |-> AssetValues(element.props)
                              \cup UNION {sub[i].assets : i \in DOMAIN sub},
                 components |-> {element.component}
                              \cup UNION {sub[i].components : i \in DOMAIN sub}]
      [] element.el = "ContentList" -> collect_refs_recursive(element.template)

collect_asset_refs(element) == collect_refs_recursive(element).assets
collect_component_refs(element) == collect_refs_recursive(element).components

\* Mutation of IsLocalImage: only the http:// prefix counts as external
IsLocalImageHttpOnly(asset) ==
    /\ asset.kind = "Image"
    /\ asset.path.some
    /\ ~starts_with(asset.path.v, "http://")

\* The condition under which the asset-import loop pushes a line
IsLocalImage(asset) ==
    /\ asset.kind = "Image"
    /\ asset.path.some
    /\ ~starts_with(asset.path.v, "http://")
    /\ ~starts_with(asset.path.v, "https://")

render_prop(key, value, record_ctx) ==
    CASE value.tag = "Str" -> Quoted(key, value.val)
      [] value.tag = "Num" -> Braced(key, ToString(value.val))
      [] value.tag = "Bool" -> IF value.val THEN Bare(key) ELSE Braced(key, "false")
      [] value.tag = "Var" -> Braced(key, value.val)
      [] value.tag = "Asset" ->
            LET got == AssetDefs_get(value.val)
            IN  IF got.some
                THEN IF got.v.kind = "Image"
                     THEN IF got.v.path.some
                          THEN IF starts_with(got.v.path.v, "http://")
                                  \/ starts_with(got.v.path.v, "https://")
                               THEN Quoted(key, got.v.path.v)
                               ELSE Braced(key, value.val)
                          ELSE Braced(key, value.val)
                     ELSE IF got.v.url.some
                          THEN Quoted(key, got.v.url.v)
                          ELSE Quoted(key, "")
                ELSE Braced(key, value.val)
      [] value.tag = "Content" ->
            LET got == get_str(value.val)
            IN  IF got.some THEN Quoted(key, got.v) ELSE Quoted(key, "")
      [] value.tag = "ContentField" ->
            IF record_ctx.some
            THEN IF value.val \in DOMAIN record_ctx.v
                 THEN Quoted(key, record_ctx.v[value.val])
                 ELSE Quoted(key, "")
            ELSE Quoted(key, "")

prop_value_to_string(value, record_ctx) ==
    CASE value.tag = "Str" -> value.val
      [] value.tag = "Num" -> ToString(value.val)
      [] value.tag = "Bool" -> IF value.val THEN "true" ELSE "false"
      [] value.tag = "Var" -> "{" \o value.val \o "}"
      [] value.tag = "Asset" ->
            LET got == AssetDefs_get(value.val)
            IN  IF got.some
                THEN IF got.v.kind = "Image"
                     THEN IF got.v.path.some
                          THEN IF starts_with(got.v.path.v, "http://")
                                  \/ starts_with(got.v.path.v, "https://")
                               THEN got.v.path.v
                               ELSE "{" \o value.val \o "}"
                          ELSE "{" \o value.val \o "}"
                     ELSE IF got.v.url.some THEN got.v.url.v ELSE ""
                ELSE "{" \o value.val \o "}"
      [] value.tag = "Content" ->
            LET got == get_str(value.val)
            IN  IF got.some THEN got.v ELSE ""
      [] value.tag = "ContentField" ->
            IF record_ctx.some /\ value.val \in DOMAIN record_ctx.v
            THEN record_ctx.v[value.val]
            ELSE ""

\* The orders in which a HashMap of these props may be iterated, the reserved
\* key "text" left out (the loop skips it)
Orders(props) ==
    LET keys == DOMAIN props \ {"text"}
    IN  {o \in [1..Cardinality(keys) -> keys] :
            \A i, j \in DOMAIN o : i # j => o[i] # o[j]}

\* Mutation of preset_class_name: the preset is pushed whatever the props hold
preset_class_name_always(class_name, props) ==
    IF class_name.some THEN <<Quoted("className", class_name.v)>> ELSE <<>>

\* "if let Some(cn) = class_name { if !props.contains_key("className")": the
\* preset className attribute of render_node, if it is pushed
preset_class_name(class_name, props) ==
    IF class_name.some /\ "className" \notin DOMAIN props
    THEN <<Quoted("className", class_name.v)>>
    ELSE <<>>

\* render_node: the lines pushed before the first child, and the pending
\* work (the children, then the closing tag)
render_node(tag, class_name, props, children, indent, record_ctx, order) ==
    LET attrs == preset_class_name(class_name, props) \o
                 [i \in DOMAIN order |-> render_prop(order[i], props[order[i]], record_ctx)]
        text_content == IF "text" \in DOMAIN props
                        THEN Some(prop_value_to_string(props["text"], record_ctx))
                        ELSE None
        has_children == children # <<>> \/ text_content.some
    IN  IF has_children
        THEN [lines |-> <<OpenLine(indent, tag, attrs, FALSE)>> \o
                        (IF text_content.some
                         THEN <<TextLine(indent + 2, text_content.v)>> ELSE <<>>),
              frames |-> [i \in DOMAIN children |->
                             CallFrame(children[i], indent + 2, record_ctx)]
                         \o <<CloseFrame(tag, indent)>>]
        ELSE [lines |-> <<OpenLine(indent, tag, attrs, TRUE)>>, frames |-> <<>>]

\* Mutation of merged_props: a default is kept when the call site sets the key
merged_props_defaults_win(default_props, props) == default_props @@ props

\* merged_props: default_props, then every call-site prop inserted over it
merged_props(default_props, props) == props @@ default_props

\* Mutation of FallbackTag: an unknown component is rendered as a div
FallbackTagDiv(component) == "div"

\* The tag of a ComponentRef whose component is not in the library
FallbackTag(component) == component

\* The props render_element hands to render_node for this element
NodeProps(element) ==
    CASE element.el = "Node" -> element.props
      [] element.el = "ComponentRef" ->
            LET def == ComponentDefs_get(element.component)
            IN  IF def.some THEN merged_props(def.v.default_props, element.props)
                            ELSE element.props
      [] OTHER -> << >>

\* Mutation of RecordMembers: the loop stops after the first record
RecordMembersFirstOnly(list) ==
    LET rs == SelectSeq(list, LAMBDA item : item.cv = "Record")
    IN  IF rs = <<>> THEN <<>> ELSE <<Head(rs)>>

\* "for item in list { if let ContentValue::Record(record) = item": the
\* members the ContentList loop renders, in list order
RecordMembers(list) == SelectSeq(list, LAMBDA item : item.cv = "Record")

\* render_element, one call: what it pushes itself and the calls it makes
render_element(element, indent, record_ctx, order) ==
    CASE element.el = "Text" ->
            [lines |-> <<TextLine(indent, element.text)>>, frames |-> <<>>]
      [] element.el = "Node" ->
            render_node(element.tag, element.class_name, element.props,
                        element.children, indent, record_ctx, order)
      [] element.el = "ComponentRef" ->
            LET def == ComponentDefs_get(element.component)
            IN  IF def.some
                THEN render_node(def.v.tag, def.v.class_name, NodeProps(element),
                                 element.children, indent, record_ctx, order)
                ELSE render_node(FallbackTag(element.component), None, element.props,
                                 element.children, indent, record_ctx, order)
      [] element.el = "ContentList" ->
            LET list == get_list(element.source)
                items == IF list.some THEN RecordMembers(list.v) ELSE <<>>
            IN  [lines |-> <<>>,
                 frames |-> [i \in DOMAIN items |->
                                CallFrame(element.template, indent, Some(items[i].record))]]

-----------------------------------------------------------------------------
(* The pages and libraries explored *)

ComponentLibrary ==
    << ComponentDef("Card", "div", Some("card"), "size" :> Num(3), None),
       ComponentDef("Icon", "Icon", None,
                    ("src" :> Asset("hero")) @@ ("className" :> Str("ic")), Some("./Icon")),
       ComponentDef("Label", "span", Some("lbl"),
                    ("text" :> Str("dflt")) @@ ("size" :> Num(3)), None),
       ComponentDef("Card", "section", None, << >>, Some("./Card2")),
       ComponentDef("Badge", "b", Some("bdg"), "className" :> Str("dflt"), None) >>

AssetLibrary ==
    << AssetDef("logo", "Image", Some("./img/logo.png"), None),
       AssetDef("hero", "Image", Some("./img/hero.png"), None),
       AssetDef("cdn", "Image", Some("https://cdn/x.png"), None),
       AssetDef("plain", "Image", Some("http://cdn/y.png"), None),
       AssetDef("httpdir", "Image", Some("httpdocs/z.png"), None),
       AssetDef("bare", "Image", None, Some("https://cdn/b.png")),
       AssetDef("clip", "Youtube", None, Some("https://youtu.be/x")),
       AssetDef("film", "Video", Some("./film.mp4"), Some("https://v/f.mp4")),
       AssetDef("song", "Audio", None, None),
       AssetDef("logo", "Youtube", None, Some("https://youtu.be/logo")) >>

AssetNames == {"logo", "cdn", "plain", "httpdir", "bare", "clip", "film", "song", "ghost"}
ComponentNames == {"Card", "Icon", "Label", "Badge", "Ghost"}

RecordOne == [label |-> "One", href |-> "/one"]
RecordTwo == [label |-> "Two"]
ItemPool == {CRecord(RecordOne), CRecord(RecordTwo), CStr("x"), CList(<<>>)}
ItemLists == SeqsUpTo(ItemPool, MaxItems)

ContentLibrary(items) ==
    [name \in {"title", "card", "items"} |->
        CASE name = "title" -> CStr("Hello")
          [] name = "card" -> CRecord(RecordOne)
          [] name = "items" -> CList(items)]

NoProps == << >>

PropsPool ==
    {NoProps}
    \cup {"src" :> Asset(n) : n \in AssetNames}
    \cup {"src" :> v : v \in {ContentField("label"), ContentField("href"),
                              Content("title"), Content("items"), Var("x")}}
    \cup {"text" :> v : v \in {Str("hi"), Num(5), Bool(FALSE), Var("x"), Asset("logo"),
                               Asset("cdn"), Asset("clip"), Asset("song"), Asset("ghost"),
                               Content("title"), ContentField("label")}}
    \cup {"size" :> Num(5), "disabled" :> Bool(TRUE), "disabled" :> Bool(FALSE),
          "className" :> Str("mine")}
    \cup {("src" :> Asset("logo")) @@ ("text" :> Str("hi")),
          ("size" :> Num(5)) @@ ("className" :> Str("mine")),
          ("src" :> Asset("clip")) @@ ("alt" :> ContentField("label"))}

SmallPool ==
    {NoProps, "src" :> Asset("logo"), "src" :> Asset("clip"), "src" :> Asset("cdn"),
     "src" :> ContentField("label"), "text" :> ContentField("label"),
     "size" :> Num(5), "className" :> Str("mine")}

\* Pages that do not read the list "items"
SimpleTrees ==
    {Node("div", cn, p, <<>>) : cn \in {None, Some("box")}, p \in PropsPool}
StaticTrees ==
    {Text("hello")}
    \cup {ComponentRef(c, p, <<>>) : c \in ComponentNames, p \in PropsPool}
    \cup {Node("div", None, p, <<Text("hello"), ComponentRef(c, q, <<>>)>>) :
             p \in SmallPool, q \in SmallPool, c \in ComponentNames}
    \cup {ContentList(src, Node("li", None, p, <<>>)) :
             src \in {"title", "card", "missing"}, p \in PropsPool}
    \cup {Node("div", Some("page"), NoProps,
               << Node("ul", None, p, <<Node("li", None, q, <<Text("x")>>), Text("y")>>),
                  ComponentRef(c, NoProps, <<Node("br", None, NoProps, <<>>)>>) >>) :
             p \in SmallPool, q \in SmallPool, c \in {"Card", "Ghost"}}

\* Pages that iterate the list "items"
ListTrees ==
    {ContentList("items", Node("li", None, p, <<>>)) : p \in PropsPool}
    \cup {Node("ul", None, p,
               << ContentList("items", ComponentRef(c, q, <<Text("x")>>)),
                  Node("hr", None, NoProps, <<>>) >>) :
             p \in SmallPool, q \in SmallPool, c \in {"Card", "Ghost"}}
    \cup {ContentList("items", ContentList(src, Node("li", None, p, <<>>))) :
             src \in {"items", "missing"}, p \in SmallPool}

ManualImports == {<<>>, <<Import("logo", "./manual/logo.png"), Import("Link", "./Link")>>}

-----------------------------------------------------------------------------
(* RouterJsx::to_string *)

\* No page is being compiled
ViewIdle ==
    /\ proto = None
    /\ component_defs = <<>>
    /\ asset_defs = <<>>
    /\ content_defs = << >>
    /\ used_assets = {}
    /\ used_components = {}
    /\ output = <<>>
    /\ stack = <<>>

RouterInit ==
    /\ layouts \in SeqsUpTo(LayoutPool, MaxLayouts)
    /\ \E rs \in SeqsUpTo(RoutePool, MaxRoutes) :
          routes = [k \in 1..Len(rs) |->
                       Route(rs[k].name, UrlOf(k), rs[k].path, rs[k].layout)]
    /\ path_to_name = << >>
    /\ used_names = {}
    /\ idx = 1
    /\ base = <<>>
    /\ counter = 0
    /\ imports = <<>>
    /\ seen_paths = {}
    /\ layout_routes = << >>
    /\ no_layout_routes = <<>>
    /\ route_elements = <<>>
    /\ pc = "add_layouts"
    /\ ViewIdle

\* Mutation of Assign: the name is not recorded as used
AssignForgetsUsed(path, name) ==
    /\ path_to_name' = (path :> name) @@ path_to_name
    /\ used_names' = used_names

\* path_to_name.insert(path, name); used_names.insert(name)
Assign(path, name) ==
    /\ path_to_name' = (path :> name) @@ path_to_name
    /\ used_names' = used_names \cup {name}

\* One call of add_layout or add_route up to the first probe of unique_name:
\* the path is known already, or the base name is free, or the loop starts.
Register(path, base_name, next_pc) ==
    IF path \in DOMAIN path_to_name
    THEN /\ pc' = next_pc
         /\ idx' = idx + 1
         /\ UNCHANGED <<path_to_name, used_names, base, counter>>
    ELSE IF base_name \notin used_names
    THEN /\ Assign(path, base_name)
         /\ pc' = next_pc
         /\ idx' = idx + 1
         /\ UNCHANGED <<base, counter>>
    ELSE /\ base' = base_name
         /\ counter' = 2
         /\ pc' = IF pc = "add_layouts" THEN "probe_layout" ELSE "probe_route"
         /\ UNCHANGED <<path_to_name, used_names, idx>>

add_layout ==
    /\ pc = "add_layouts"
    /\ idx <= Len(layouts)
    /\ Register(layouts[idx].path, capitalize(layouts[idx].name) \o LayoutSuffix,
                "add_layouts")
    /\ UNCHANGED <<layouts, routes, imports, seen_paths, layout_routes,
                   no_layout_routes, route_elements>>
    /\ UNCHANGED viewVars

add_route ==
    /\ pc = "add_routes"
    /\ idx <= Len(routes)
    /\ Register(routes[idx].path, capitalize(routes[idx].name), "add_routes")
    /\ UNCHANGED <<layouts, routes, imports, seen_paths, layout_routes,
                   no_layout_routes, route_elements>>
    /\ UNCHANGED viewVars

\* Mutation of unique_name: a taken candidate is probed again ("counter += 1"
\* is missing)
unique_name_no_increment ==
    /\ pc \in {"probe_layout", "probe_route"}
    /\ LET candidate == base \o Decimal(counter)
           path == IF pc = "probe_layout" THEN layouts[idx].path ELSE routes[idx].path
       IN  IF candidate \notin used_names
           THEN /\ Assign(path, candidate)
                /\ pc' = IF pc = "probe_layout" THEN "add_layouts" ELSE "add_routes"
                /\ idx' = idx + 1
                /\ UNCHANGED <<base, counter>>
           ELSE UNCHANGED <<path_to_name, used_names, pc, idx, base, counter>>
    /\ UNCHANGED <<layouts, routes, imports, seen_paths, layout_routes,
                   no_layout_routes, route_elements>>
    /\ UNCHANGED viewVars

\* One iteration of the loop of unique_name
unique_name ==
    /\ pc \in {"probe_layout", "probe_route"}
    /\ LET candidate == base \o Decimal(counter)
           path == IF pc = "probe_layout" THEN layouts[idx].path ELSE routes[idx].path
       IN  IF candidate \notin used_names
           THEN /\ Assign(path, candidate)
                /\ pc' = IF pc = "probe_layout" THEN "add_layouts" ELSE "add_routes"
                /\ idx' = idx + 1
                /\ UNCHANGED <<base, counter>>
           ELSE /\ counter' = counter + 1
                /\ UNCHANGED <<path_to_name, used_names, pc, idx, base>>
    /\ UNCHANGED <<layouts, routes, imports, seen_paths, layout_routes,
                   no_layout_routes, route_elements>>
    /\ UNCHANGED viewVars

\* Mutation of loop_end: the loop over the layouts is left after its first
\* iteration
loop_end_layouts_cut_short ==
    /\ \/ pc = "add_layouts" /\ (idx > Len(layouts) \/ idx > 1) /\ pc' = "add_routes"
                             /\ imports' = imports
       \/ pc = "add_routes" /\ idx > Len(routes) /\ pc' = "import_layouts"
                            /\ imports' = imports \o <<UseRoutesLine>>
       \/ pc = "import_layouts" /\ idx > Len(layouts) /\ pc' = "import_routes"
                                /\ imports' = imports \o <<BlankLine>>
       \/ pc = "import_routes" /\ idx > Len(routes) /\ pc' = "group"
                               /\ imports' = imports
       \/ pc = "group" /\ idx > Len(routes) /\ pc' = "emit_layouts"
                       /\ imports' = imports
       \/ pc = "emit_layouts" /\ idx > Len(layouts) /\ pc' = "emit_no_layout"
                              /\ imports' = imports
       \/ pc = "emit_no_layout" /\ idx > Len(no_layout_routes) /\ pc' = "done"
                                /\ imports' = imports
    /\ idx' = 1
    /\ UNCHANGED <<layouts, routes, path_to_name, used_names, base, counter,
                   seen_paths, layout_routes, no_layout_routes, route_elements>>
    /\ UNCHANGED viewVars

\* The end of a for loop: on to the next loop
loop_end ==
    /\ \/ pc = "add_layouts" /\ idx > Len(layouts) /\ pc' = "add_routes"
                             /\ imports' = imports
       \/ pc = "add_routes" /\ idx > Len(routes) /\ pc' = "import_layouts"
                            /\ imports' = imports \o <<UseRoutesLine>>
       \/ pc = "import_layouts" /\ idx > Len(layouts) /\ pc' = "import_routes"
                                /\ imports' = imports \o <<BlankLine>>
       \/ pc = "import_routes" /\ idx > Len(routes) /\ pc' = "group"
                               /\ imports' = imports
       \/ pc = "group" /\ idx > Len(routes) /\ pc' = "emit_layouts"
                       /\ imports' = imports
       \/ pc = "emit_layouts" /\ idx > Len(layouts) /\ pc' = "emit_no_layout"
                              /\ imports' = imports
       \/ pc = "emit_no_layout" /\ idx > Len(no_layout_routes) /\ pc' = "done"
                                /\ imports' = imports
    /\ idx' = 1
    /\ UNCHANGED <<layouts, routes, path_to_name, used_names, base, counter,
                   seen_paths, layout_routes, no_layout_routes, route_elements>>
    /\ UNCHANGED viewVars

\* import_map.get(path).unwrap(): a missing path panics
Lookup(path) == IF path \in DOMAIN path_to_name THEN Some(path_to_name[path]) ELSE None

import_layout ==
    /\ pc = "import_layouts"
    /\ idx <= Len(layouts)
    /\ LET got == Lookup(layouts[idx].path)
       IN  IF got.some
           THEN /\ imports' = imports \o <<ImportLine(got.v, layouts[idx].path)>>
                /\ idx' = idx + 1
                /\ pc' = pc
           ELSE /\ pc' = "panic"
                /\ UNCHANGED <<imports, idx>>
    /\ UNCHANGED <<layouts, routes, path_to_name, used_names, base, counter,
                   seen_paths, layout_routes, no_layout_routes, route_elements>>
    /\ UNCHANGED viewVars

\* Mutation of import_route: the set of imported routes is kept by route name
import_route_seen_by_name ==
    /\ pc = "import_routes"
    /\ idx <= Len(routes)
    /\ IF routes[idx].name \in seen_paths
       THEN /\ idx' = idx + 1
            /\ UNCHANGED <<imports, seen_paths, pc>>
       ELSE LET got == Lookup(routes[idx].path)
            IN  IF got.some
                THEN /\ seen_paths' = seen_paths \cup {routes[idx].name}
                     /\ imports' = imports \o <<ImportLine(got.v, routes[idx].path)>>
                     /\ idx' = idx + 1
                     /\ pc' = pc
                ELSE /\ seen_paths' = seen_paths \cup {routes[idx].name}
                     /\ pc' = "panic"
                     /\ UNCHANGED <<imports, idx>>
    /\ UNCHANGED <<layouts, routes, path_to_name, used_names, base, counter,
                   layout_routes, no_layout_routes, route_elements>>
    /\ UNCHANGED viewVars

\* One iteration of the view-import loop, the seen_paths test included
import_route ==
    /\ pc = "import_routes"
    /\ idx <= Len(routes)
    /\ IF routes[idx].path \in seen_paths
       THEN /\ idx' = idx + 1
            /\ UNCHANGED <<imports, seen_paths, pc>>
       ELSE LET got == Lookup(routes[idx].path)
            IN  IF got.some
                THEN /\ seen_paths' = seen_paths \cup {routes[idx].path}
                     /\ imports' = imports \o <<ImportLine(got.v, routes[idx].path)>>
                     /\ idx' = idx + 1
                     /\ pc' = pc
                ELSE /\ seen_paths' = seen_paths \cup {routes[idx].path}
                     /\ pc' = "panic"
                     /\ UNCHANGED <<imports, idx>>
    /\ UNCHANGED <<layouts, routes, path_to_name, used_names, base, counter,
                   layout_routes, no_layout_routes, route_elements>>
    /\ UNCHANGED viewVars

\* Mutation of group_route: a route is grouped under its layout only when a
\* layout of that name exists, and is listed as ungrouped otherwise
group_route_orphans_ungrouped ==
    /\ pc = "group"
    /\ idx <= Len(routes)
    /\ LET route == routes[idx]
       IN  IF route.layout.some /\ \E k \in 1..Len(layouts) : layouts[k].name = route.layout.v
           THEN /\ layout_routes' =
                      (route.layout.v :>
                          (IF route.layout.v \in DOMAIN layout_routes
                           THEN layout_routes[route.layout.v] ELSE <<>>) \o <<route>>)
                      @@ layout_routes
                /\ UNCHANGED no_layout_routes
           ELSE /\ no_layout_routes' = no_layout_routes \o <<route>>
                /\ UNCHANGED layout_routes
    /\ idx' = idx + 1
    /\ UNCHANGED <<pc, layouts, routes, path_to_name, used_names, base, counter,
                   imports, seen_paths, route_elements>>
    /\ UNCHANGED viewVars

\* layout_routes.entry(layout).or_default().push(route) / no_layout_routes.push(route)
group_route ==
    /\ pc = "group"
    /\ idx <= Len(routes)
    /\ LET route == routes[idx]
       IN  IF route.layout.some
           THEN /\ layout_routes' =
                      (route.layout.v :>
                          (IF route.layout.v \in DOMAIN layout_routes
                           THEN layout_routes[route.layout.v] ELSE <<>>) \o <<route>>)
                      @@ layout_routes
                /\ UNCHANGED no_layout_routes
           ELSE /\ no_layout_routes' = no_layout_routes \o <<route>>
                /\ UNCHANGED layout_routes
    /\ idx' = idx + 1
    /\ UNCHANGED <<pc, layouts, routes, path_to_name, used_names, base, counter,
                   imports, seen_paths, route_elements>>
    /\ UNCHANGED viewVars

\* One iteration of "for layout in &self.layouts", with its inner loop
emit_layout ==
    /\ pc = "emit_layouts"
    /\ idx <= Len(layouts)
    /\ LET layout == layouts[idx]
       IN  IF layout.name \in DOMAIN layout_routes
           THEN LET rs == layout_routes[layout.name]
                    lc == Lookup(layout.path)
                IN  IF lc.some /\ \A k \in 1..Len(rs) : Lookup(rs[k].path).some
                    THEN /\ route_elements' = route_elements \o
                              <<LayoutEntry(lc.v,
                                  [k \in 1..Len(rs) |->
                                      ChildEntry(rs[k].url, Lookup(rs[k].path).v)])>>
                         /\ idx' = idx + 1
                         /\ pc' = pc
                    ELSE /\ pc' = "panic"
                         /\ UNCHANGED <<route_elements, idx>>
           ELSE /\ idx' = idx + 1
                /\ UNCHANGED <<route_elements, pc>>
    /\ UNCHANGED <<layouts, routes, path_to_name, used_names, base, counter,
                   imports, seen_paths, layout_routes, no_layout_routes>>
    /\ UNCHANGED viewVars

emit_no_layout ==
    /\ pc = "emit_no_layout"
    /\ idx <= Len(no_layout_routes)
    /\ LET route == no_layout_routes[idx]
           got == Lookup(route.path)
       IN  IF got.some
           THEN /\ route_elements' = route_elements \o <<TopEntry(route.url, got.v)>>
                /\ idx' = idx + 1
                /\ pc' = pc
           ELSE /\ pc' = "panic"
                /\ UNCHANGED <<route_elements, idx>>
    /\ UNCHANGED <<layouts, routes, path_to_name, used_names, base, counter,
                   imports, seen_paths, layout_routes, no_layout_routes>>
    /\ UNCHANGED viewVars

RouterNext ==
    \/ add_layout
    \/ add_route
    \/ unique_name
    \/ loop_end
    \/ import_layout
    \/ import_route
    \/ group_route
    \/ emit_layout
    \/ emit_no_layout

RouterSpec == RouterInit /\ [][RouterNext]_vars

-----------------------------------------------------------------------------
(* ViewJsx::to_string *)

\* No route table is being assembled
RouterIdle ==
    /\ layouts = <<>>
    /\ routes = <<>>
    /\ path_to_name = << >>
    /\ used_names = {}
    /\ idx = 0
    /\ base = <<>>
    /\ counter = 0
    /\ imports = <<>>
    /\ seen_paths = {}
    /\ layout_routes = << >>
    /\ no_layout_routes = <<>>
    /\ route_elements = <<>>

ViewInit ==
    /\ \E tree \in SimpleTrees \cup StaticTrees \cup ListTrees :
       \E observer \in BOOLEAN : \E imps \in ManualImports : \E items \in ItemLists :
          /\ tree \in SimpleTrees \/ (observer = FALSE /\ imps = <<>>)
          /\ tree \in ListTrees \/ items = <<CRecord(RecordOne)>>
          /\ proto = ViewProto("Page", imps, observer, tree)
          /\ content_defs = ContentLibrary(items)
    /\ component_defs = ComponentLibrary
    /\ asset_defs = AssetLibrary
    /\ used_assets = {}
    /\ used_components = {}
    /\ output = <<>>
    /\ stack = <<>>
    /\ pc = "collect"
    /\ RouterIdle

\* to_string up to the first import loop
collect ==
    /\ pc = "collect"
    /\ used_assets' = collect_asset_refs(proto.tree)
    /\ used_components' = collect_component_refs(proto.tree)
    /\ output' = <<ReactLine>> \o (IF proto.observer THEN <<ObserverLine>> ELSE <<>>)
                     \o <<BlankLine>>
    /\ pc' = "imports"
    /\ UNCHANGED <<proto, component_defs, asset_defs, content_defs, stack>>
    /\ UNCHANGED routerVars

\* The number of Node and ComponentRef elements with an Asset(name) prop
RECURSIVE RefCount(_, _)
RefCount(element, name) ==
    LET Sum(f) == LET RECURSIVE Add(_)
                      Add(i) == IF i = 0 THEN 0 ELSE f[i] + Add(i - 1)
                  IN  Add(Len(f))
    IN  CASE element.el = "Text" -> 0
          [] element.el = "ContentList" -> RefCount(element.template, name)
          [] OTHER ->
                (IF name \in AssetValues(element.props) THEN 1 ELSE 0)
                + Sum([i \in 1..Len(element.children) |->
                          RefCount(element.children[i], name)])

\* Mutation of asset_import: the references are kept in a list, so a name is
\* visited once per referencing element
asset_import_per_reference ==
    /\ pc = "imports"
    /\ \E asset_name \in used_assets :
          /\ used_assets' = used_assets \ {asset_name}
          /\ LET asset == AssetDefs_get(asset_name)
             IN  IF asset.some /\ IsLocalImage(asset.v)
                 THEN output' = output \o
                          [i \in 1..RefCount(proto.tree, asset_name) |->
                              ViewImportLine("asset", asset_name, asset.v.path.v)]
                 ELSE output' = output
    /\ UNCHANGED <<pc, proto, component_defs, asset_defs, content_defs,
                   used_components, stack>>
    /\ UNCHANGED routerVars

\* One iteration of "for asset_name in &used_assets", in any order
asset_import ==
    /\ pc = "imports"
    /\ \E asset_name \in used_assets :
          /\ used_assets' = used_assets \ {asset_name}
          /\ LET asset == AssetDefs_get(asset_name)
             IN  IF asset.some /\ IsLocalImage(asset.v)
                 THEN output' = output \o
                          <<ViewImportLine("asset", asset_name, asset.v.path.v)>>
                 ELSE output' = output
    /\ UNCHANGED <<pc, proto, component_defs, asset_defs, content_defs,
                   used_components, stack>>
    /\ UNCHANGED routerVars

\* One iteration of "for component_name in &used_components", in any order
component_import ==
    /\ pc = "imports"
    /\ used_assets = {}
    /\ \E component_name \in used_components :
          /\ used_components' = used_components \ {component_name}
          /\ LET def == ComponentDefs_get(component_name)
             IN  IF def.some /\ def.v.import_path.some
                 THEN output' = output \o
                          <<ViewImportLine("component", def.v.tag, def.v.import_path.v)>>
                 ELSE output' = output
    /\ UNCHANGED <<pc, proto, component_defs, asset_defs, content_defs,
                   used_assets, stack>>
    /\ UNCHANGED routerVars

\* The manual imports, the function header and the call render_element(tree, 4, None)
manual_imports ==
    /\ pc = "imports"
    /\ used_assets = {}
    /\ used_components = {}
    /\ output' = output
                   \o [i \in DOMAIN proto.imports |->
                          ViewImportLine("manual", proto.imports[i].name,
                                         proto.imports[i].path)]
                   \o <<BlankLine, FunctionOpen(proto.name), ReturnOpen>>
    /\ stack' = <<CallFrame(proto.tree, 4, None)>>
    /\ pc' = "render"
    /\ UNCHANGED <<proto, component_defs, asset_defs, content_defs,
                   used_assets, used_components>>
    /\ UNCHANGED routerVars

\* The next pending step of the recursion
render ==
    /\ pc = "render"
    /\ stack # <<>>
    /\ LET frame == Head(stack)
       IN  IF frame.op = "close"
           THEN /\ output' = output \o <<CloseLine(frame.indent, frame.tag)>>
                /\ stack' = Tail(stack)
           ELSE \E order \in Orders(NodeProps(frame.element)) :
                   LET r == render_element(frame.element, frame.indent,
                                           frame.record_ctx, order)
                   IN  /\ output' = output \o r.lines
                       /\ stack' = r.frames \o Tail(stack)
    /\ UNCHANGED <<pc, proto, component_defs, asset_defs, content_defs,
                   used_assets, used_components>>
    /\ UNCHANGED routerVars

\* The tree is rendered: close the function and export it
finish ==
    /\ pc = "render"
    /\ stack = <<>>
    /\ output' = output \o <<ReturnClose, FunctionClose,
                             ExportLine(proto.name, proto.observer)>>
    /\ pc' = "done"
    /\ UNCHANGED <<proto, component_defs, asset_defs, content_defs,
                   used_assets, used_components, stack>>
    /\ UNCHANGED routerVars

ViewNext ==
    \/ collect
    \/ asset_import
    \/ component_import
    \/ manual_imports
    \/ render
    \/ finish

ViewSpec == ViewInit /\ [][ViewNext]_vars

Init == RouterInit \/ ViewInit
Next == RouterNext \/ ViewNext
Spec == Init /\ [][Next]_vars

\* Both functions are straight-line sequential code: a step that can be
\* taken is taken
LiveSpec == Spec /\ WF_vars(Next)

-----------------------------------------------------------------------------
(* Properties of the Router Assembler *)

ImportLinesFor(path) ==
    {k \in 1..Len(imports) : imports[k].kind = "import" /\ imports[k].path = path}

\* Positions (entry, child) of the routes array that render the url
ChildPositions(url) ==
    {<<e, j>> \in (1..Len(route_elements)) \X (1..MaxRoutes + 1) :
        /\ route_elements[e].kind = "layout"
        /\ j <= Len(route_elements[e].children)
        /\ route_elements[e].children[j].path = url}

TopPositions(url) ==
    {e \in 1..Len(route_elements) :
        route_elements[e].kind = "route" /\ route_elements[e].path = url}

KnownLayout(name) == \E k \in 1..Len(layouts) : layouts[k].name = name

\* The route position a url of the output stands for
RouteOfUrl(url) == CHOOSE k \in 1..Len(routes) : routes[k].url = url

\* C1: when a layout and a route declare the same path, the two import lines
\* that would name it carry the same identifier and the returned imports hold
\* exactly one import line for that path.
C1_SharedPathImportedOnce ==
    pc = "done" =>
        \A l \in 1..Len(layouts) : \A r \in 1..Len(routes) :
            layouts[l].path = routes[r].path =>
                /\ \A a, b \in ImportLinesFor(layouts[l].path) :
                       imports[a].name = imports[b].name
                /\ Cardinality(ImportLinesFor(layouts[l].path)) = 1

\* The candidate base name of the entry being registered
CurrentBase ==
    IF pc \in {"add_layouts", "probe_layout"}
    THEN capitalize(layouts[idx].name) \o LayoutSuffix
    ELSE capitalize(routes[idx].name)

C2_Distinct ==
    \A p, q \in DOMAIN path_to_name : p # q => path_to_name[p] # path_to_name[q]

C2_Assigned ==
    path_to_name' # path_to_name =>
        \E p \in DOMAIN path_to_name' \ DOMAIN path_to_name :
            LET name == path_to_name'[p]
            IN  IF CurrentBase \notin used_names
                THEN name = CurrentBase
                ELSE \E n \in 2..(Cardinality(used_names) + 2) :
                        /\ name = CurrentBase \o Decimal(n)
                        /\ name \notin used_names
                        /\ \A m \in 2..(n - 1) : CurrentBase \o Decimal(m) \in used_names

\* C2: entries with different paths always hold different identifiers, and
\* an entry whose base name is taken is assigned the base followed by the
\* smallest n >= 2 for which base+n is unused.
C2_UniqueNames == []C2_Distinct /\ [][C2_Assigned]_vars

\* A third entry finds both ALayout and ALayout2 taken and is named ALayout3
C2_Witness ==
    /\ pc = "done"
    /\ \E p \in DOMAIN path_to_name :
          path_to_name[p] = <<"A">> \o LayoutSuffix \o <<"3">>

\* C3: every route of a known layout is rendered exactly once, as a child of
\* that layout's entry, children in route order; every route without layout
\* is rendered exactly once, as a top-level entry after the layout entries,
\* in route order.
C3_GroupingComplete ==
    pc = "done" =>
        /\ \A k \in 1..Len(routes) :
              /\ (routes[k].layout.some /\ KnownLayout(routes[k].layout.v)) =>
                    /\ Cardinality(ChildPositions(routes[k].url)) = 1
                    /\ TopPositions(routes[k].url) = {}
              /\ ~routes[k].layout.some =>
                    /\ Cardinality(TopPositions(routes[k].url)) = 1
                    /\ ChildPositions(routes[k].url) = {}
        /\ \A e \in 1..Len(route_elements) :
              IF route_elements[e].kind = "layout"
              THEN \A i, j \in 1..Len(route_elements[e].children) :
                      i < j => RouteOfUrl(route_elements[e].children[i].path)
                                 < RouteOfUrl(route_elements[e].children[j].path)
              ELSE \A f \in e + 1..Len(route_elements) :
                      /\ route_elements[f].kind = "route"
                      /\ RouteOfUrl(route_elements[e].path)
                            < RouteOfUrl(route_elements[f].path)

Orphan(k) == routes[k].layout.some /\ ~KnownLayout(routes[k].layout.v)

\* C4: a route whose layout names no known layout is in no entry of the
\* routes array, and to_string neither panics nor stops before it is done.
C4_OrphanDropped ==
    /\ pc # "panic"
    /\ pc # "done" => ENABLED RouterNext
    /\ pc = "done" =>
          \A k \in 1..Len(routes) :
              Orphan(k) => ChildPositions(routes[k].url) = {} /\ TopPositions(routes[k].url) = {}

\* A finished run with an orphaned route beside a rendered one
C4_Witness ==
    /\ pc = "done"
    /\ \E k \in 1..Len(routes) : Orphan(k)
    /\ route_elements # <<>>

-----------------------------------------------------------------------------
(* Properties of the View Compiler *)

AssetImportLines(name) ==
    {i \in 1..Len(output) :
        output[i].kind = "import" /\ output[i].by = "asset" /\ output[i].name = name}

Importable(name) == AssetDefs_get(name).some /\ IsLocalImage(AssetDefs_get(name).v)

\* C5: an asset name referenced from two or more elements of the tree has
\* exactly one generated asset import line (none when the asset is not a
\* local image, for which no import is generated at all).
C5_OneImportPerAsset ==
    pc = "done" =>
        \A name \in AssetNames :
            RefCount(proto.tree, name) >= 2 =>
                Cardinality(AssetImportLines(name)) = IF Importable(name) THEN 1 ELSE 0

\* The local image "logo" is referenced from two elements, one of them the
\* template of a ContentList rendered for two records
C5_Witness ==
    /\ pc = "done"
    /\ RefCount(proto.tree, "logo") = 2
    /\ proto.tree.el = "Node"
    /\ proto.tree.children[1].el = "ContentList"
    /\ Len(RecordMembers(content_defs["items"].list)) = 2
    /\ Cardinality(AssetImportLines("logo")) = 1

\* A step of render that runs render_element on a ComponentRef
RendersRef ==
    /\ pc = "render"
    /\ stack # <<>>
    /\ Head(stack).op = "render_element"
    /\ Head(stack).element.el = "ComponentRef"
    /\ output' # output

AttrsOf(line, key) == {i \in 1..Len(line.attrs) : line.attrs[i].key = key}

\* The lines the step pushed
Pushed == SubSeq(output', Len(output) + 1, Len(output'))

C6_Step ==
    (RendersRef /\ ComponentDefs_get(Head(stack).element.component).some) =>
        LET element == Head(stack).element
            ctx == Head(stack).record_ctx
            def == ComponentDefs_get(element.component).v
            keys == DOMAIN def.default_props \cup DOMAIN element.props
            Winner(k) == IF k \in DOMAIN element.props
                         THEN element.props[k] ELSE def.default_props[k]
            line == Pushed[1]
        IN  /\ line.kind = "open"
            /\ line.tag = def.tag
            /\ \A k \in keys \ {"text"} :
                  /\ Cardinality(AttrsOf(line, k)) = 1
                  /\ \A i \in AttrsOf(line, k) :
                        line.attrs[i] = render_prop(k, Winner(k), ctx)
            /\ \A i \in 1..Len(line.attrs) : line.attrs[i].key \in keys \cup {"className"}
            /\ IF "text" \in keys
               THEN /\ AttrsOf(line, "text") = {}
                    /\ Pushed[2] = TextLine(Head(stack).indent + 2,
                                            prop_value_to_string(Winner("text"), ctx))
               ELSE Len(Pushed) = 1

\* C6: a ComponentRef to a defined component is rendered with the union of
\* default_props and call-site props, every key once, the call-site value
\* where both set the key (the reserved key "text" is rendered once as well,
\* as the inline text of the element).
C6_MergedProps == [][C6_Step]_vars

\* Card has the default size=3; called with size=5 it renders size={5} once
C6_Witness ==
    /\ pc = "done"
    /\ proto.tree = ComponentRef("Card", "size" :> Num(5), <<>>)
    /\ \E i \in 1..Len(output) :
          output[i] = OpenLine(4, "div", <<Quoted("className", "card"),
                                           Braced("size", "5")>>, TRUE)

C7_Render ==
    (RendersRef /\ ~ComponentDefs_get(Head(stack).element.component).some) =>
        LET element == Head(stack).element
            ctx == Head(stack).record_ctx
            line == Pushed[1]
        IN  /\ line.kind = "open"
            /\ line.tag = element.component
            /\ Len(line.attrs) = Cardinality(DOMAIN element.props \ {"text"})
            /\ \A k \in DOMAIN element.props \ {"text"} :
                  \E i \in 1..Len(line.attrs) :
                      line.attrs[i] = render_prop(k, element.props[k], ctx)
            /\ IF "text" \in DOMAIN element.props
               THEN Pushed[2] = TextLine(Head(stack).indent + 2,
                                         prop_value_to_string(element.props["text"], ctx))
               ELSE Len(Pushed) = 1

C7_Import ==
    (/\ pc = "imports"
     /\ used_components' # used_components
     /\ \A name \in used_components \ used_components' : ~ComponentDefs_get(name).some)
        => output' = output

C7_Completes == pc # "done" => ENABLED ViewNext

\* C7: a ComponentRef to a component the library does not hold is rendered
\* under its own name with exactly its call-site props (the reserved key
\* "text" as the inline text), without a preset className and without a
\* component import; the compilation goes on to its end.
C7_UnknownComponent == [][C7_Render /\ C7_Import]_vars /\ []C7_Completes

\* The unknown component Ghost, with a prop, rendered under its own name
C7_Witness ==
    /\ pc = "done"
    /\ proto.tree = ComponentRef("Ghost", "size" :> Num(5), <<>>)
    /\ \E i \in 1..Len(output) :
          output[i] = OpenLine(4, "Ghost", <<Braced("size", "5")>>, TRUE)
    /\ \A i \in 1..Len(output) : output[i].kind # "import"

\* A referenced asset that is rendered inline: Youtube, Video, Audio, or an
\* Image whose path starts with http:// or https://
Inline(name) ==
    /\ AssetDefs_get(name).some
    /\ LET asset == AssetDefs_get(name).v
       IN  \/ asset.kind \in {"Youtube", "Video", "Audio"}
           \/ /\ asset.kind = "Image"
              /\ asset.path.some
              /\ Len(asset.path.v) >= 8
              /\ \/ SubSeq(asset.path.v, 1, 7) = "http://"
                 \/ SubSeq(asset.path.v, 1, 8) = "https://"

\* The string such a reference is replaced by
InlineLiteral(name) ==
    LET asset == AssetDefs_get(name).v
    IN  IF asset.kind = "Image" THEN asset.path.v
        ELSE IF asset.url.some THEN asset.url.v ELSE ""

C8_NoImport ==
    \A i \in 1..Len(output) :
        (output[i].kind = "import" /\ output[i].by = "asset") => ~Inline(output[i].name)

\* A step of render that runs render_node (on a Node or a ComponentRef)
RendersNode ==
    /\ pc = "render"
    /\ stack # <<>>
    /\ Head(stack).op = "render_element"
    /\ Head(stack).element.el \in {"Node", "ComponentRef"}
    /\ output' # output

C8_UseSite ==
    RendersNode =>
        LET element == Head(stack).element
            line == Pushed[1]
        IN  \A k \in DOMAIN element.props :
                (element.props[k].tag = "Asset" /\ Inline(element.props[k].val)) =>
                    IF k = "text"
                    THEN Pushed[2].kind = "text"
                         /\ Pushed[2].text = InlineLiteral(element.props[k].val)
                    ELSE \E i \in 1..Len(line.attrs) :
                            line.attrs[i] = Quoted(k, InlineLiteral(element.props[k].val))

\* C8: no asset import is generated for a Youtube, Video or Audio asset or
\* for an Image with an http:// or https:// path; at its use site such a
\* reference is the url (or "" without url) or the external path, as a quoted
\* attribute literal (as the inline text under the reserved key "text").
C8_InlineAssets == []C8_NoImport /\ [][C8_UseSite]_vars

\* The Youtube asset "clip" rendered as src="https://youtu.be/x", no import
C8_Witness ==
    /\ pc = "done"
    /\ proto.tree = Node("div", None, "src" :> Asset("clip"), <<>>)
    /\ \E i \in 1..Len(output) :
          output[i] = OpenLine(4, "div", <<Quoted("src", "https://youtu.be/x")>>, TRUE)
    /\ \A i \in 1..Len(output) : output[i].kind # "import"

\* The lines of the function body: between "return (" and ");"
Body ==
    LET first == CHOOSE i \in 1..Len(output) : output[i].kind = "return"
        last == CHOOSE i \in 1..Len(output) : output[i].kind = "return_end"
    IN  SubSeq(output, first + 1, last - 1)

\* The members of the list that are records, by position in the list
RecordPositions(list) == {i \in 1..Len(list) : list[i].cv = "Record"}
NthPosition(S, n) == CHOOSE i \in S : Cardinality({j \in S : j <= i}) = n

\* A page whose root is a ContentList over a template without children
C9_Root ==
    (/\ pc = "done"
     /\ proto.tree.el = "ContentList"
     /\ proto.tree.template.el = "Node") =>
        LET source == proto.tree.source
            template == proto.tree.template
            per == IF "text" \in DOMAIN template.props THEN 3 ELSE 1
        IN  IF source \in DOMAIN content_defs /\ content_defs[source].cv = "List"
            THEN LET list == content_defs[source].list
                     recs == RecordPositions(list)
                 IN  /\ Len(Body) = per * Cardinality(recs)
                     /\ \A n \in 1..Cardinality(recs) :
                           LET record == list[NthPosition(recs, n)].record
                               line == Body[per * (n - 1) + 1]
                               Field(f) == IF f \in DOMAIN record THEN record[f] ELSE ""
                           IN  /\ line.kind = "open"
                               /\ line.tag = template.tag
                               /\ \A k \in DOMAIN template.props :
                                     template.props[k].tag = "ContentField" =>
                                        IF k = "text"
                                        THEN Body[per * (n - 1) + 2] =
                                                TextLine(6, Field(template.props[k].val))
                                        ELSE \E i \in 1..Len(line.attrs) :
                                                line.attrs[i] =
                                                    Quoted(k, Field(template.props[k].val))
            ELSE Body = <<>>

\* Any ContentList, wherever it stands: the call pushes no line of its own
\* and is replaced by one call of the template per record member, in list
\* order, each with its record as the field context
C9_Step ==
    (/\ pc = "render"
     /\ stack # <<>>
     /\ Head(stack).op = "render_element"
     /\ Head(stack).element.el = "ContentList"
     /\ stack' # stack) =>
        LET element == Head(stack).element
            list == IF element.source \in DOMAIN content_defs
                       /\ content_defs[element.source].cv = "List"
                    THEN content_defs[element.source].list ELSE <<>>
            recs == RecordPositions(list)
        IN  /\ output' = output
            /\ Len(stack') = Len(stack) - 1 + Cardinality(recs)
            /\ \A n \in 1..Cardinality(recs) :
                  stack'[n] = CallFrame(element.template, Head(stack).indent,
                                        Some(list[NthPosition(recs, n)].record))
            /\ SubSeq(stack', Cardinality(recs) + 1, Len(stack')) = Tail(stack)

\* C9: a ContentList over a List renders its template once per member that
\* is a Record, in list order, ContentField values read from that record;
\* other members render nothing; a missing or non-List source renders nothing.
C9_ContentList == []C9_Root /\ [][C9_Step]_vars

\* A list of a record, a string and a second record, rendered as two lines
C9_Witness ==
    /\ pc = "done"
    /\ proto.tree = ContentList("items", Node("li", None, "src" :> ContentField("href"), <<>>))
    /\ content_defs["items"].list = <<CRecord(RecordOne), CRecord(RecordTwo)>>
    /\ Body = << OpenLine(4, "li", <<Quoted("src", "/one")>>, TRUE),
                 OpenLine(4, "li", <<Quoted("src", "")>>, TRUE) >>

\* C10: to_string of the router and to_string of the view always return: the
\* probe loop of unique_name and the tree walk of render_element end.
C10_Terminates == <>(pc = "done")

\* A returned router file for which unique_name ran its loop twice
C10_Witness ==
    /\ pc = "done"
    /\ counter = 3
    /\ \E p \in DOMAIN path_to_name : path_to_name[p] = base \o <<"3">>

\* An import line of the output that binds the name to the path
BoundTo(name, path) ==
    \E m \in 1..Len(output) :
        output[m].kind = "import" /\ output[m].name = name /\ output[m].path = path

\* The names of the asset library; in the pages explored no Var and no Num
\* prints as one of them, so a braced attribute holding such a name comes
\* from an Asset prop
LibraryNames == {asset_defs[k].name : k \in 1..Len(asset_defs)}

\* C11: in the returned text, every attribute that is the braced reference
\* to an asset resolving to an Image with a local path has an import line
\* that binds the asset name to that path, whichever way the Asset prop
\* reached the element (props of a Node, props of a ComponentRef, props in
\* a ContentList template, default_props of a ComponentDef).
C11_BracedAssetImported ==
    pc = "done" =>
        \A i \in 1..Len(output) :
            output[i].kind = "open" =>
                \A j \in 1..Len(output[i].attrs) :
                    LET attr == output[i].attrs[j]
                    IN  (/\ attr.form = "braced"
                         /\ attr.value \in LibraryNames
                         /\ Importable(attr.value))
                            => BoundTo(attr.value, AssetDefs_get(attr.value).v.path.v)

C12_Step ==
    RendersNode =>
        LET element == Head(stack).element
            ctx == Head(stack).record_ctx
            def == IF element.el = "ComponentRef"
                   THEN ComponentDefs_get(element.component) ELSE None
            class_name == IF element.el = "Node" THEN element.class_name
                          ELSE IF def.some THEN def.v.class_name ELSE None
            at_call == "className" \in DOMAIN element.props
            by_default == def.some /\ "className" \in DOMAIN def.v.default_props
            line == Pushed[1]
            found == AttrsOf(line, "className")
        IN  /\ line.kind = "open"
            /\ Cardinality(found) <= 1
            /\ IF at_call
               THEN \A i \in found :
                       line.attrs[i] = render_prop("className", element.props["className"], ctx)
               ELSE IF by_default
               THEN \A i \in found :
                       line.attrs[i] = render_prop("className",
                                                   def.v.default_props["className"], ctx)
               ELSE IF class_name.some
               THEN found = {1} /\ line.attrs[1] = Quoted("className", class_name.v)
               ELSE found = {}
            /\ (at_call \/ by_default) => Cardinality(found) = 1

\* C12: an element pushed by render_node has at most one className
\* attribute: the preset class_name exactly when one is supplied and the
\* props handed to render_node (for a ComponentRef, default_props overlaid by
\* the call-site props) have no className key; otherwise the className of
\* those props, which is the call-site one whenever the call site sets it.
C12_OneClassName == [][C12_Step]_vars

\* Card presets "card"; called with className="mine" as the second child of
\* the root it renders "mine" alone, beside the default size
C12_Witness ==
    /\ pc = "done"
    /\ proto.tree.el = "Node"
    /\ Len(proto.tree.children) = 2
    /\ proto.tree.children[2] = ComponentRef("Card", "className" :> Str("mine"), <<>>)
    /\ \E i \in 1..Len(output) :
          output[i] = OpenLine(6, "div", <<Quoted("className", "mine"), Braced("size", "3")>>,
                               TRUE)
          \/ output[i] = OpenLine(6, "div", <<Braced("size", "3"), Quoted("className", "mine")>>,
                                  TRUE)

-----------------------------------------------------------------------------
(* Properties of the registration order of the Router Assembler *)

LayoutPathsUpTo(k) == {layouts[j].path : j \in 1..k}
RoutePathsUpTo(k) == {routes[j].path : j \in 1..k}
LayoutBase(l) == capitalize(layouts[l].name) \o LayoutSuffix
RouteBase(r) == capitalize(routes[r].name)

\* The naming algorithm applied to the first k layouts and to nothing else:
\* a known path keeps its name, a free base is taken, a taken base gets the
\* least number from 2 on that makes an unused name
RECURSIVE LayoutNaming(_)
LayoutNaming(k) ==
    IF k = 0 THEN [map |-> << >>, used |-> {}]
    ELSE LET prev == LayoutNaming(k - 1)
             path == layouts[k].path
             b == LayoutBase(k)
             n == CHOOSE m \in 2..(Cardinality(prev.used) + 2) :
                     /\ b \o Decimal(m) \notin prev.used
                     /\ \A j \in 2..(m - 1) : b \o Decimal(j) \in prev.used
             name == IF b \notin prev.used THEN b ELSE b \o Decimal(n)
         IN  IF path \in DOMAIN prev.map THEN prev
             ELSE [map |-> (path :> name) @@ prev.map, used |-> prev.used \cup {name}]

\* The entries registered so far are a prefix of the layouts and, once every
\* layout is registered, a prefix of the routes
C13_Order ==
    /\ pc \in {"add_layouts", "probe_layout"} =>
          DOMAIN path_to_name = LayoutPathsUpTo(idx - 1)
    /\ pc \in {"add_routes", "probe_route"} =>
          DOMAIN path_to_name = LayoutPathsUpTo(Len(layouts)) \cup RoutePathsUpTo(idx - 1)

\* Each registration names the entry at idx and leaves every other name alone
C13_Step ==
    path_to_name' # path_to_name =>
        LET path == IF pc \in {"add_layouts", "probe_layout"}
                    THEN layouts[idx].path ELSE routes[idx].path
        IN  /\ pc \in {"add_layouts", "probe_layout", "add_routes", "probe_route"}
            /\ path \notin DOMAIN path_to_name
            /\ DOMAIN path_to_name' = DOMAIN path_to_name \cup {path}
            /\ \A p \in DOMAIN path_to_name : path_to_name'[p] = path_to_name[p]
            /\ idx' = idx + 1

Registered == pc \notin {"add_layouts", "probe_layout", "add_routes", "probe_route"}

\* The route at r asks unique_name for a name: its path has none when its
\* turn comes
Competes(r) ==
    /\ routes[r].path \notin LayoutPathsUpTo(Len(layouts))
    /\ routes[r].path \notin RoutePathsUpTo(r - 1)

\* The number a name carries after the base (1 for the base itself)
SuffixOf(name, b) ==
    IF name = b THEN 1
    ELSE CHOOSE n \in 2..(MaxLayouts + MaxRoutes + 2) : name = b \o Decimal(n)

C13_LayoutsAlone ==
    Registered =>
        \A l \in 1..Len(layouts) :
            path_to_name[layouts[l].path] = LayoutNaming(Len(layouts)).map[layouts[l].path]

C13_LayoutWins ==
    Registered =>
        \A l \in 1..Len(layouts) : \A r \in 1..Len(routes) :
            (/\ layouts[l].path # routes[r].path
             /\ LayoutBase(l) = RouteBase(r)
             /\ Competes(r)) =>
                LET b == LayoutBase(l)
                    lname == path_to_name[layouts[l].path]
                    rname == path_to_name[routes[r].path]
                IN  /\ (/\ \A j \in 1..(l - 1) : LayoutBase(j) # b
                         /\ layouts[l].path \notin LayoutPathsUpTo(l - 1)) => lname = b
                    /\ \E n \in 2..(MaxLayouts + MaxRoutes + 2) : rname = b \o Decimal(n)
                    /\ \E m \in 1..(MaxLayouts + MaxRoutes + 2) :
                          /\ lname = IF m = 1 THEN b ELSE b \o Decimal(m)
                          /\ m < SuffixOf(rname, b)

-----------------------------------------------------------------------------
(* Properties of the identifiers of the routes array *)

\* The imports bind the identifier, and bind it to this path only
BoundIn(name, path) ==
    /\ \E k \in 1..Len(imports) : imports[k] = ImportLine(name, path)
    /\ \A k \in 1..Len(imports) :
          (imports[k].kind = "import" /\ imports[k].name = name) => imports[k].path = path

RoutesOfLayout(name) == SelectSeq(routes, LAMBDA route : route.layout = Some(name))
RoutesOfNoLayout == SelectSeq(routes, LAMBDA route : ~route.layout.some)

\* A step that pushes an entry of the routes array
C14_Step ==
    route_elements' # route_elements =>
        LET entry == route_elements'[Len(route_elements')]
        IN  /\ route_elements' = route_elements \o <<entry>>
            /\ imports' = imports
            /\ IF pc = "emit_layouts"
               THEN LET rs == RoutesOfLayout(layouts[idx].name)
                    IN  /\ entry.kind = "layout"
                        /\ BoundIn(entry.element, layouts[idx].path)
                        /\ Len(entry.children) = Len(rs)
                        /\ \A k \in 1..Len(rs) :
                              /\ entry.children[k].path = rs[k].url
                              /\ BoundIn(entry.children[k].element, rs[k].path)
               ELSE LET route == RoutesOfNoLayout[idx]
                    IN  /\ pc = "emit_no_layout"
                        /\ entry.kind = "route"
                        /\ entry.path = route.url
                        /\ BoundIn(entry.element, route.path)

\* Every identifier of the returned routes array is bound by an import line
C14_Done ==
    pc = "done" =>
        \A e \in 1..Len(route_elements) :
            /\ \E k \in 1..Len(imports) :
                  imports[k].kind = "import" /\ imports[k].name = route_elements[e].element
            /\ route_elements[e].kind = "layout" =>
                  \A j \in 1..Len(route_elements[e].children) :
                      BoundIn(route_elements[e].children[j].element,
                              routes[RouteOfUrl(route_elements[e].children[j].path)].path)
            /\ route_elements[e].kind = "route" =>
                  BoundIn(route_elements[e].element,
                          routes[RouteOfUrl(route_elements[e].path)].path)

\* C14: every component identifier instantiated in the routes array, of a
\* layout entry, of a child or of a top-level entry, is bound by an import
\* line of the same output, to the path of the layout or route the entry
\* instantiates; no lookup by path fails.
C14_ElementsImported ==
    /\ [](pc # "panic")
    /\ [][C14_Step]_vars
    /\ []C14_Done

\* Two routes named "a" with different paths: the second is instantiated as
\* A2 under the layout, the first as A at the top level
C14_Witness ==
    /\ pc = "done"
    /\ Len(route_elements) = 2
    /\ route_elements[1].kind = "layout"
    /\ Len(route_elements[1].children) = 1
    /\ route_elements[1].children[1].element = <<"A", "2">>
    /\ route_elements[2] = TopEntry(<<"/", "1">>, <<"A">>)

====
